---- MODULE Spec2Model ----
(***************************************************************************)
(* A model of run.py, the driver of the face-swap pipeline: the frame      *)
(* indexer (get_framepaths / get_imagepaths), the resumability partitioner *)
(* (_frames), the force-redo policies and the swap loop of                 *)
(* process_image_mode; the ordered pipeline of process_streamed; the save  *)
(* of the video (vid_save_gen, vid_save_frames, _video_save); the decoder  *)
(* subprocess of _frame_gen_ffmpeg; the frame extraction over re-runs; the *)
(* names of the swapped frames against the encoder's pattern; and the      *)
(* frame rates start and process_streamed choose.                          *)
(*                                                                         *)
(* File names are sequences of one-character strings, so that the string   *)
(* operations of the code (endswith, slicing, the leading-number regex,    *)
(* int()) are computed as the code computes them.  A path is a pair        *)
(* <<directory, name>>; the filesystem is the set of paths of the regular  *)
(* files that exist.                                                       *)
(***************************************************************************)
EXTENDS Integers, Sequences, FiniteSets, TLC

VARIABLES
    cfg,             \* args: the suffixes, the directories, the redo flags
    fs,              \* the files that exist
    pc,              \* where the run of process_image_mode stands
    in_frame_paths,  \* the indexer's result
    fp_all,          \* the WorkPartition of the run
    fp_todo,
    fp_done,
    del_done,        \* the local del_done of process_image_mode
    err,             \* the error that ended the run, "none" while it runs
    err_nums,        \* the list the continuity error carries
    processed,       \* positions of fp_todo whose job a worker has finished
    part0,           \* what _frames returned in this run (NoPart before)
    fs_snap,         \* the files that existed when _frames was called
    \* process_streamed
    s_pc,            \* where the streamed run stands
    s_src,           \* the frames the decode source has still to yield
    s_count,         \* enumerate's counter: the ordinal of the next frame
    s_inflight,      \* jobs (ordinal, frame) a worker is processing
    s_buffer,        \* results (ordinal, frame) held for reordering
    s_next,          \* the ordinal the dispatcher releases next
    s_yield,         \* what parallel_process_gen has yielded, in order
    s_sink,          \* the frames vid_save_gen's encoder has been handed
    s_source,        \* the frames of the source video, in temporal order
    \* vid_save_gen, vid_save_frames
    v_cfg,           \* args and vid_info: the audio flags, overwrite, the mode
    v_pc,            \* where the save stands
    v_stage,         \* 1: the encode, 2: the audio merge
    v_save,          \* what _video_save returned
    v_files,         \* the content of the video paths and their temp paths
    v_before,        \* their content when the save began
    v_moved,         \* the destinations a temp file has been moved to
    v_err,           \* the error that ended the save
    \* a stream-mode run reading from _frame_gen_ffmpeg
    d_total,         \* the bytes the decoder emits if it runs to its end
    d_emit,          \* the bytes the decoder has written to the pipe
    d_proc,          \* the decoder process: "none", "running", "exited"
    d_status,        \* its exit status
    d_read,          \* the bytes _frame_gen_ffmpeg has read
    d_frames,        \* the frames _frame_gen_ffmpeg has yielded
    d_sink,          \* the swapped frames the encoder has been handed
    d_tmp,           \* the encoder's temp file: "absent" or "partial"
    d_dest,          \* the destination: promoted or not, and its frames
    d_pc,            \* where the generator and the run stand
    d_err,           \* the error that ended the run
    \* the frame extraction of process_image_mode, over re-runs
    extraction,      \* record: the source, the frames directory, the run
    \* the names of the swapped frames and of the encoder's pattern
    naming,          \* record: the files, the suffixes, the jobs, the reads
    \* the frame rates of a stream-mode run
    rate             \* record: the arguments, fps_use, fps_swapped, the reader

imgvars == <<cfg, fs, pc, in_frame_paths, fp_all, fp_todo, fp_done, del_done,
             err, err_nums, processed, part0, fs_snap>>

streamvars == <<s_pc, s_src, s_count, s_inflight, s_buffer, s_next, s_yield,
                s_sink, s_source>>

savevars == <<v_cfg, v_pc, v_stage, v_save, v_files, v_before, v_moved, v_err>>

decvars == <<d_total, d_emit, d_proc, d_status, d_read, d_frames, d_sink, d_tmp,
             d_dest, d_pc, d_err>>

latevars == <<extraction, naming, rate>>

vars == <<imgvars, streamvars, savevars, decvars, latevars>>

\* ------------------------------------------------------------- bounds

\* The frame files of the model carry the ordinals 1..MaxOrd.
MaxOrd == 3

\* ------------------------------------------------------------ strings

SUF_PNG == <<".", "p">>
SUF_JPG == <<".", "j">>
SUF_EMPTY == <<>>

Alphabet == <<".", "0", "1", "2", "3", "4", "5", "b", "j", "p", "x">>

CharRank(c) == CHOOSE i \in 1..Len(Alphabet) : Alphabet[i] = c

IsDigit(c) == c \in {"0", "1", "2", "3", "4", "5"}

DigitVal(c) == CharRank(c) - 2

DigitChar(k) == Alphabet[k + 2]

Min(S) == CHOOSE x \in S : \A y \in S : x <= y

Range(s) == {s[i] : i \in 1..Len(s)}

\* str.endswith
EndsWith(s, suf) ==
    /\ Len(suf) <= Len(s)
    /\ SubSeq(s, Len(s) - Len(suf) + 1, Len(s)) = suf

\* The slice s[:-n] of Python: s[:-0] is s[:0], the empty string.
PySliceDropLast(s, n) ==
    IF n = 0 THEN <<>> ELSE SubSeq(s, 1, Len(s) - n)

\* Lexicographic order on names (the order of a directory listing).
RECURSIVE LexLess(_, _)
LexLess(a, b) ==
    IF b = <<>> THEN FALSE
    ELSE IF a = <<>> THEN TRUE
    ELSE IF a[1] # b[1] THEN CharRank(a[1]) < CharRank(b[1])
    ELSE LexLess(Tail(a), Tail(b))

\* int() of a string of decimal digits
RECURSIVE ParseInt(_)
ParseInt(ds) ==
    IF ds = <<>> THEN 0
    ELSE ParseInt(SubSeq(ds, 1, Len(ds) - 1)) * 10 + DigitVal(ds[Len(ds)])

\* _leading_num_reg = "^(\d+)(?:[^\d]|$)": the length of the leading run of
\* digits; 0 when the name does not start with a digit (no match).
NumLen(s) ==
    LET nd == {i \in 1..Len(s) : ~IsDigit(s[i])}
    IN  IF nd = {} THEN Len(s) ELSE Min(nd) - 1

NoMatch == -1

\* int(_leading_num_reg.search(name).group(1)), NoMatch when search gives None
LeadingNum(s) ==
    IF NumLen(s) = 0 THEN NoMatch ELSE ParseInt(SubSeq(s, 1, NumLen(s)))

\* name_pattern(name, length) % i, for the default length: the ordinal
\* zero-padded to `length` digits, then the suffix.
RECURSIVE ZeroPad(_, _)
ZeroPad(ds, length) ==
    IF Len(ds) >= length THEN ds ELSE ZeroPad(<<"0">> \o ds, length)

\* -------------------------------------------------------- filesystem

FRAMES_DIR == "frames"
SWAPPED_DIR == "swapped"

\* The names the frames directory may hold when a behaviour starts: the
\* frames k.p of the ordinals, a second file of ordinal 1 (01.p) and of
\* ordinal 2 (2b.p), and a name with no leading number (x.p).
PlainName(k) == <<DigitChar(k)>> \o SUF_PNG

FrameNames ==
    {PlainName(k) : k \in 1..MaxOrd}
        \cup {<<"0", "1">> \o SUF_PNG, <<"2", "b">> \o SUF_PNG, <<"x">> \o SUF_PNG}

\* The names of S in directory (lexicographic) order.
RECURSIVE SortLex(_)
SortLex(S) ==
    IF S = {} THEN <<>>
    ELSE LET m == CHOOSE x \in S : \A y \in S \ {x} : LexLess(x, y)
         IN  <<m>> \o SortLex(S \ {m})

\* os.scandir(dir) filtered by is_file() and name.endswith(suffix): the
\* matching names, in directory order.
ScanDir(dir, suffix, f) ==
    SortLex({p[2] : p \in {q \in f : q[1] = dir /\ EndsWith(q[2], suffix)}})

\* sorted(with_num) for names whose leading numbers differ pairwise: the
\* names in ascending order of their number.
RECURSIVE SortNum(_)
SortNum(S) ==
    IF S = {} THEN <<>>
    ELSE LET m == CHOOSE x \in S : \A y \in S \ {x} : LeadingNum(x) <= LeadingNum(y)
         IN  <<m>> \o SortNum(S \ {m})

\* get_framepaths: the outcome is ok with the paths in ascending ordinal
\* order, or an error.  A name the regex does not match makes .group raise
\* (AttributeError); two entries with the same number make sorted() compare
\* the DirEntry objects, which have no order (TypeError); ensure() raises
\* with the list of numbers when they are not 1..len(files).
GetFramepaths(dir, suffix, ensure_continuous, f) ==
    LET files == Range(ScanDir(dir, suffix, f))
        names == SortNum(files)
        nums == [i \in 1..Len(names) |-> LeadingNum(names[i])]
    IN  IF \E n \in files : LeadingNum(n) = NoMatch
        THEN [err |-> "AttributeError", nums |-> <<>>, paths |-> <<>>]
        ELSE IF \E a, b \in files : a # b /\ LeadingNum(a) = LeadingNum(b)
        THEN [err |-> "TypeError", nums |-> <<>>, paths |-> <<>>]
        ELSE IF ensure_continuous /\ nums # [i \in 1..Cardinality(files) |-> i]
        THEN [err |-> "continuity", nums |-> nums, paths |-> <<>>]
        ELSE [err |-> "none", nums |-> nums,
              paths |-> [i \in 1..Len(names) |-> <<dir, names[i]>>]]

\* is_img of core.utils: whether the file is an image, by its extension.
IsImg(name) == EndsWith(name, SUF_PNG) \/ EndsWith(name, SUF_JPG)

\* get_imagepaths: the matching images in directory order, no continuity.
GetImagepaths(dir, suffix, f) ==
    LET names == SelectSeq(ScanDir(dir, suffix, f), IsImg)
    IN  [err |-> "none", nums |-> <<>>,
         paths |-> [i \in 1..Len(names) |-> <<dir, names[i]>>]]

\* ------------------------------------------------------- partitioner

\* The output path _frames gives an input frame.
OutPath(inpath, output_dir, org_suffix, swapped_suffix) ==
    <<output_dir, PySliceDropLast(inpath[2], Len(org_suffix)) \o swapped_suffix>>

\* Path.exists
Exists(path, f) == path \in f

IsDone(job, f) == Exists(job[2], f)

\* _frames with every frame appended to todo, the done ones as well.
FramesAllTodo(frame_paths, output_dir, org_suffix, swapped_suffix, f) ==
    LET frames == [i \in 1..Len(frame_paths) |->
                     <<frame_paths[i],
                       OutPath(frame_paths[i], output_dir, org_suffix, swapped_suffix)>>]
        done(j) == IsDone(j, f)
    IN  [all |-> frames, todo |-> frames, done |-> SelectSeq(frames, done)]

\* _frames: the jobs (input path, output path), and their split by the
\* existence of the output.
Frames(frame_paths, output_dir, org_suffix, swapped_suffix, f) ==
    LET frames == [i \in 1..Len(frame_paths) |->
                     <<frame_paths[i],
                       OutPath(frame_paths[i], output_dir, org_suffix, swapped_suffix)>>]
        done(j) == IsDone(j, f)
        todo(j) == ~IsDone(j, f)
    IN  [all |-> frames,
         todo |-> SelectSeq(frames, todo),
         done |-> SelectSeq(frames, done)]

\* _frames probing an output by opening it for writing, which creates it.
FsAfterFramesTouch(r, f) == f \cup {r.all[i][2] : i \in 1..Len(r.all)}

\* The files after _frames has run on the files f and returned r: exists()
\* only reads, so they are the files before.
FsAfterFrames(r, f) == f

\* ------------------------------------------------- process_image_mode

NoPart == [all |-> <<>>, todo |-> <<>>, done |-> <<>>, called |-> FALSE]

\* args: name_suffix_org, name_suffix_swapped, whether swapped_dir names the
\* directory of the input frames, the two redo flags, and whether an
\* output_path is given (then continuity is required of the frames).
Configs ==
    [name_suffix_org : {SUF_EMPTY, SUF_PNG},
     name_suffix_swapped : {SUF_PNG, SUF_JPG},
     swapped_in_frames_dir : BOOLEAN,
     redo_swapped : BOOLEAN,
     redo_completed_swap : BOOLEAN,
     output_path : BOOLEAN]

swapped_frames_dir == IF cfg.swapped_in_frames_dir THEN FRAMES_DIR ELSE SWAPPED_DIR

OUT == "out"
PLAIN == "plain"
OUT_TMP == "out.tmp"
PLAIN_TMP == "plain.tmp"

VideoPaths == {OUT, PLAIN, OUT_TMP, PLAIN_TMP}

NoSave == [output_path_write |-> OUT, audio_source |-> FALSE, audio_2stage |-> FALSE]

\* No video is being saved.
SaveIdle ==
    /\ v_cfg = [direct_audio |-> FALSE, vid_output_audio |-> FALSE,
                has_audio |-> FALSE, overwrite |-> FALSE, image_mode |-> FALSE]
    /\ v_pc = "idle"
    /\ v_stage = 1
    /\ v_save = NoSave
    /\ v_files = [p \in VideoPaths |-> "absent"]
    /\ v_before = [p \in VideoPaths |-> "absent"]
    /\ v_moved = {}
    /\ v_err = "none"

\* No frames are being extracted.
ExtractionIdle == extraction = [pc |-> "idle"]

\* No names are being compared.
NamingIdle == naming = [pc |-> "idle"]

\* No frame rate is being chosen.
RateIdle == rate = [pc |-> "idle"]

LateIdle == ExtractionIdle /\ NamingIdle /\ RateIdle

NoDest == [promoted |-> FALSE, frames |-> <<>>]

\* No decoder subprocess has been started.
DecodeIdle ==
    /\ d_total = 0
    /\ d_emit = 0
    /\ d_proc = "none"
    /\ d_status = 0
    /\ d_read = 0
    /\ d_frames = <<>>
    /\ d_sink = <<>>
    /\ d_tmp = "absent"
    /\ d_dest = NoDest
    /\ d_pc = "idle"
    /\ d_err = "none"

\* The streamed pipeline is not running.
StreamIdle ==
    /\ s_pc = "idle"
    /\ s_src = <<>>
    /\ s_count = 0
    /\ s_inflight = {}
    /\ s_buffer = {}
    /\ s_next = 0
    /\ s_yield = <<>>
    /\ s_sink = <<>>
    /\ s_source = <<>>

InitImage ==
    /\ cfg \in Configs
    /\ \E names \in SUBSET FrameNames : fs = {<<FRAMES_DIR, n>> : n \in names}
    /\ pc = "start"
    /\ in_frame_paths = <<>>
    /\ fp_all = <<>>
    /\ fp_todo = <<>>
    /\ fp_done = <<>>
    /\ del_done = FALSE
    /\ err = "none"
    /\ err_nums = <<>>
    /\ processed = {}
    /\ part0 = NoPart
    /\ fs_snap = {}

\* Lines 401-406: index the input frames.
Index ==
    /\ pc = "start"
    /\ LET r == IF cfg.output_path
                THEN GetFramepaths(FRAMES_DIR, cfg.name_suffix_org, TRUE, fs)
                ELSE GetImagepaths(FRAMES_DIR, cfg.name_suffix_org, fs)
       IN  /\ in_frame_paths' = r.paths
           /\ err' = r.err
           /\ err_nums' = IF r.err = "none" THEN <<>> ELSE r.nums
           /\ pc' = IF r.err = "none" THEN "indexed" ELSE "error"
    /\ UNCHANGED <<cfg, fs, fp_all, fp_todo, fp_done, del_done, processed,
                   part0, fs_snap>>
    /\ UNCHANGED <<streamvars, savevars, decvars, latevars>>

\* Lines 409-423: the swapped directory is made (no file is), _frames is
\* called, and the run ends when there is no frame.
Partition ==
    /\ pc = "indexed"
    /\ LET r == Frames(in_frame_paths, swapped_frames_dir,
                       cfg.name_suffix_org, cfg.name_suffix_swapped, fs)
       IN  /\ fp_all' = r.all
           /\ fp_todo' = r.todo
           /\ fp_done' = r.done
           /\ part0' = [all |-> r.all, todo |-> r.todo, done |-> r.done,
                        called |-> TRUE]
           /\ pc' = IF r.all = <<>> THEN "error" ELSE "partitioned"
           /\ err' = IF r.all = <<>> THEN "no frames" ELSE "none"
           /\ fs' = FsAfterFrames(r, fs)
    /\ fs_snap' = fs
    /\ UNCHANGED <<cfg, in_frame_paths, del_done, err_nums, processed>>
    /\ UNCHANGED <<streamvars, savevars, decvars, latevars>>

\* The redo-partial policy limited to a partly done set.
DelDonePartialOnly(redo_swapped, redo_completed_swap, todo, all) ==
    \/ redo_swapped /\ todo # <<>> /\ Len(todo) # Len(all)
    \/ redo_completed_swap /\ todo = <<>>

\* Lines 425-432: whether the done outputs are deleted.
DelDone(redo_swapped, redo_completed_swap, todo, all) ==
    \/ redo_swapped /\ Len(todo) # Len(all)
    \/ redo_completed_swap /\ todo = <<>>

\* Lines 435-436: dst.unlink(missing_ok = False) for each done job in turn;
\* unlinking a path that does not exist raises and ends the loop.
RECURSIVE UnlinkAll(_, _)
UnlinkAll(done, f) ==
    IF done = <<>> THEN [fs |-> f, ok |-> TRUE]
    ELSE IF ~Exists(Head(done)[2], f) THEN [fs |-> f, ok |-> FALSE]
    ELSE UnlinkAll(Tail(done), f \ {Head(done)[2]})

\* The deletion without the re-queueing of the deleted jobs.
RequeuedTodoOnly(all, todo, done) == [todo |-> todo, done |-> <<>>]

\* Lines 438-439: the partition after the deletion.
Requeued(all, todo, done) == [todo |-> all, done |-> <<>>]

\* Lines 425-439: the force-redo policies.
Redo ==
    /\ pc = "partitioned"
    /\ del_done' = DelDone(cfg.redo_swapped, cfg.redo_completed_swap, fp_todo, fp_all)
    /\ IF del_done'
       THEN LET u == UnlinkAll(fp_done, fs)
                q == Requeued(fp_all, fp_todo, fp_done)
            IN  /\ fs' = u.fs
                /\ IF u.ok
                   THEN /\ fp_todo' = q.todo
                        /\ fp_done' = q.done
                        /\ pc' = "redone"
                        /\ err' = "none"
                   ELSE /\ pc' = "error"
                        /\ err' = "FileNotFoundError"
                        /\ UNCHANGED <<fp_todo, fp_done>>
       ELSE /\ pc' = "redone"
            /\ UNCHANGED <<fs, fp_todo, fp_done, err>>
    /\ UNCHANGED <<cfg, in_frame_paths, fp_all, err_nums, processed, part0,
                   fs_snap>>
    /\ UNCHANGED <<streamvars, savevars, decvars, latevars>>

\* Lines 441-453: the swap is started, or skipped when nothing is to do.
Dispatch ==
    /\ pc = "redone"
    /\ pc' = IF fp_todo # <<>> THEN "swapping" ELSE "swapped"
    /\ UNCHANGED <<cfg, fs, in_frame_paths, fp_all, fp_todo, fp_done, del_done,
                   err, err_nums, processed, part0, fs_snap>>
    /\ UNCHANGED <<streamvars, savevars, decvars, latevars>>

\* A worker of parallel_process_gen finishes job i of fp_todo: it has read the
\* input frame and written the swapped frame at the job's output path.
WorkerDone ==
    /\ pc = "swapping"
    /\ \E i \in (1..Len(fp_todo)) \ processed :
        /\ Exists(fp_todo[i][1], fs)
        /\ fs' = fs \cup {fp_todo[i][2]}
        /\ processed' = processed \cup {i}
        /\ pc' = IF processed' = 1..Len(fp_todo) THEN "swapped" ELSE "swapping"
    /\ UNCHANGED <<cfg, in_frame_paths, fp_all, fp_todo, fp_done, del_done,
                   err, err_nums, part0, fs_snap>>
    /\ UNCHANGED <<streamvars, savevars, decvars, latevars>>

\* The swap loop with an exception of the loop caught.
AfterSwapLoopCaught(raised, output_path) ==
    IF output_path THEN "saving" ELSE "returned"

\* Lines 441-459: where the run goes from the swap loop.  An exception of
\* parallel_process_gen (line 449-451) is not caught, the try of line 443
\* only covers the import of tqdm; otherwise the run returns when there is
\* no output path (lines 455-457) and calls vid_save_frames (line 459).
AfterSwapLoop(raised, output_path) ==
    IF raised THEN "error"
    ELSE IF output_path THEN "saving" ELSE "returned"

\* The transform raises in a worker: the error ends the run.
WorkerFail ==
    /\ pc = "swapping"
    /\ pc' = AfterSwapLoop(TRUE, cfg.output_path)
    /\ err' = "WorkerFailure"
    /\ UNCHANGED <<cfg, fs, in_frame_paths, fp_all, fp_todo, fp_done, del_done,
                   err_nums, processed, part0, fs_snap>>
    /\ UNCHANGED <<streamvars, savevars, decvars, latevars>>

\* Lines 455-459: the swap loop is over; the run returns, or it calls
\* vid_save_frames, which starts the encoder.
SaveFrames ==
    /\ pc = "swapped"
    /\ pc' = AfterSwapLoop(FALSE, cfg.output_path)
    /\ UNCHANGED <<cfg, fs, in_frame_paths, fp_all, fp_todo, fp_done, del_done,
                   err, err_nums, processed, part0, fs_snap>>
    /\ UNCHANGED <<streamvars, savevars, decvars, latevars>>

\* The program is run again with the same arguments: after it ended (all
\* swapped, or an error), or after it was killed where it stood.
Rerun ==
    /\ pc \in {"swapping", "swapped", "error"}
    /\ pc' = "start"
    /\ in_frame_paths' = <<>>
    /\ fp_all' = <<>>
    /\ fp_todo' = <<>>
    /\ fp_done' = <<>>
    /\ del_done' = FALSE
    /\ err' = "none"
    /\ err_nums' = <<>>
    /\ processed' = {}
    /\ part0' = NoPart
    /\ fs_snap' = {}
    /\ UNCHANGED <<cfg, fs>>
    /\ UNCHANGED <<streamvars, savevars, decvars, latevars>>

NextImage ==
    \/ Index
    \/ Partition
    \/ Redo
    \/ Dispatch
    \/ WorkerDone
    \/ WorkerFail
    \/ SaveFrames
    \/ Rerun

InitImageMode == InitImage /\ StreamIdle /\ SaveIdle /\ DecodeIdle /\ LateIdle

SpecImage == InitImageMode /\ [][NextImage]_vars

\* --------------------------------------------------- process_streamed

\* The streamed runs of the model decode at most MaxStream frames, and the
\* dispatcher holds at most MaxInFlight frames dispatched and not released.
MaxStream == 3

MaxInFlight == 2

Payloads == {"a", "b"}

Sources == UNION {[1..n -> Payloads] : n \in 0..MaxStream}

\* The image-mode pipeline is not running.
ImageIdle ==
    /\ cfg = [name_suffix_org |-> SUF_PNG, name_suffix_swapped |-> SUF_PNG,
              swapped_in_frames_dir |-> FALSE, redo_swapped |-> FALSE,
              redo_completed_swap |-> FALSE, output_path |-> TRUE]
    /\ fs = {}
    /\ pc = "idle"
    /\ in_frame_paths = <<>>
    /\ fp_all = <<>>
    /\ fp_todo = <<>>
    /\ fp_done = <<>>
    /\ del_done = FALSE
    /\ err = "none"
    /\ err_nums = <<>>
    /\ processed = {}
    /\ part0 = NoPart
    /\ fs_snap = {}

InitStream ==
    /\ s_source \in Sources
    /\ s_src = s_source
    /\ s_pc = "running"
    /\ s_count = 0
    /\ s_inflight = {}
    /\ s_buffer = {}
    /\ s_next = 0
    /\ s_yield = <<>>
    /\ s_sink = <<>>

\* The external transform swap(face, frame).
Swap(frame) == <<"swapped", frame>>

\* Line 265, enumerate(gen): the frame with its position, counted from 0.
Enumerate(count, frame) == <<count, frame>>

\* _rem_ctx passing the context on, as a ("ctx", ordinal) record of the
\* position, instead of the frame.
RemCtxKeepsCtx(item) == <<"ctx", item[1]>>

\* Lines 244-246, _rem_ctx: the frame of a (ctx, frame) pair.
RemCtx(item) == item[2]

\* The dispatcher of parallel_process_gen pulls the next (ordinal, frame)
\* from enumerate(gen), which pulls the next frame from the decode source,
\* and hands it to a worker; it holds back while MaxInFlight frames are
\* dispatched and not released.
StreamDispatch ==
    /\ s_pc = "running"
    /\ s_src # <<>>
    /\ Cardinality(s_inflight) + Cardinality(s_buffer) < MaxInFlight
    /\ s_inflight' = s_inflight \cup {Enumerate(s_count, Head(s_src))}
    /\ s_src' = Tail(s_src)
    /\ s_count' = s_count + 1
    /\ UNCHANGED <<s_pc, s_buffer, s_next, s_yield, s_sink, s_source>>
    /\ UNCHANGED <<imgvars, savevars, decvars, latevars>>

\* A worker finishes its job, whichever worker is first: the result
\* (ordinal, swapped frame) goes to the dispatcher's reorder buffer.
StreamWorkerDone ==
    /\ s_pc = "running"
    /\ \E job \in s_inflight :
        /\ s_inflight' = s_inflight \ {job}
        /\ s_buffer' = s_buffer \cup {<<job[1], Swap(job[2])>>}
    /\ UNCHANGED <<s_pc, s_src, s_count, s_next, s_yield, s_sink, s_source>>
    /\ UNCHANGED <<imgvars, savevars, decvars, latevars>>

\* The dispatcher releases the result whose ordinal is next; _rem_ctx strips
\* the ordinal and the encoder of vid_save_gen is handed the frame.
StreamRelease ==
    /\ s_pc = "running"
    /\ \E item \in s_buffer :
        /\ item[1] = s_next
        /\ s_buffer' = s_buffer \ {item}
        /\ s_yield' = Append(s_yield, item)
        /\ s_sink' = Append(s_sink, RemCtx(item))
    /\ s_next' = s_next + 1
    /\ UNCHANGED <<s_pc, s_src, s_count, s_inflight, s_source>>
    /\ UNCHANGED <<imgvars, savevars, decvars, latevars>>

\* The decode source is exhausted and every result is released: the frame
\* generator ends.
StreamEnd ==
    /\ s_pc = "running"
    /\ s_src = <<>>
    /\ s_inflight = {}
    /\ s_buffer = {}
    /\ s_pc' = "done"
    /\ UNCHANGED <<s_src, s_count, s_inflight, s_buffer, s_next, s_yield,
                   s_sink, s_source>>
    /\ UNCHANGED <<imgvars, savevars, decvars, latevars>>

NextStream ==
    \/ StreamDispatch
    \/ StreamWorkerDone
    \/ StreamRelease
    \/ StreamEnd

InitStreamed == InitStream /\ ImageIdle /\ SaveIdle /\ DecodeIdle /\ LateIdle

SpecStream == InitStreamed /\ [][NextStream]_vars

\* ------------------------------------- vid_save_gen, vid_save_frames

\* A video path holds nothing ("absent"), a file that was there before the
\* run ("old"), the unfinished output of a running subprocess ("partial"),
\* a finished encode without audio ("video") or with audio ("video+audio").
Contents == {"absent", "old", "partial", "video", "video+audio"}

SaveConfigs ==
    [direct_audio : BOOLEAN, vid_output_audio : BOOLEAN, has_audio : BOOLEAN,
     overwrite : BOOLEAN, image_mode : BOOLEAN]

\* When the run begins any of the paths may hold an old file.
InitSave ==
    /\ v_cfg \in SaveConfigs
    /\ v_files \in [VideoPaths -> {"absent", "old"}]
    /\ v_before = v_files
    /\ v_pc = "check"
    /\ v_stage = 1
    /\ v_save = NoSave
    /\ v_moved = {}
    /\ v_err = "none"

\* Lines 190-199, start: outside image mode an existing output path is
\* refused unless overwrite is given.
OutputRefused(image_mode, overwrite, output_exists) ==
    ~image_mode /\ ~overwrite /\ output_exists

\* Lines 189-232, start: the check of the output path; then the frames are
\* processed and the save is called (line 268, line 459).
StartCheck ==
    /\ v_pc = "check"
    /\ IF OutputRefused(v_cfg.image_mode, v_cfg.overwrite, v_files[OUT] # "absent")
       THEN v_pc' = "failed" /\ v_err' = "output_path exists"
       ELSE v_pc' = "start" /\ v_err' = "none"
    /\ UNCHANGED <<v_cfg, v_stage, v_save, v_files, v_before, v_moved>>
    /\ UNCHANGED <<imgvars, streamvars, decvars, latevars>>

\* _video_save refusing no .plain path.
PlainNeverRefused(audio_2stage, overwrite, plain_exists) == FALSE

\* Lines 300-304, _video_save: an existing .plain path is refused when the
\* merge stage is chosen and overwrite is not given.
PlainRefused(audio_2stage, overwrite, plain_exists) ==
    audio_2stage /\ ~overwrite /\ plain_exists

\* _video_save choosing the direct mux on direct_audio alone.
VideoSaveDirectUnprobed(direct_audio, vid_output_audio, has_audio) ==
    IF direct_audio
    THEN [output_path_write |-> OUT, audio_source |-> TRUE, audio_2stage |-> FALSE]
    ELSE IF vid_output_audio /\ has_audio
    THEN [output_path_write |-> PLAIN, audio_source |-> FALSE, audio_2stage |-> TRUE]
    ELSE [output_path_write |-> OUT, audio_source |-> FALSE, audio_2stage |-> FALSE]

\* Lines 290-309, _video_save: the path the encoder's result goes to, whether
\* the encoder is given the source as audio input, whether a merge follows.
VideoSaveOf(direct_audio, vid_output_audio, has_audio) ==
    IF direct_audio /\ has_audio
    THEN [output_path_write |-> OUT, audio_source |-> TRUE, audio_2stage |-> FALSE]
    ELSE IF vid_output_audio /\ has_audio
    THEN [output_path_write |-> PLAIN, audio_source |-> FALSE, audio_2stage |-> TRUE]
    ELSE [output_path_write |-> OUT, audio_source |-> FALSE, audio_2stage |-> FALSE]

\* Lines 272 and 463: _video_save is called; it refuses an existing .plain
\* path when a merge follows and overwrite is not allowed (lines 303-304).
VideoSave ==
    /\ v_pc = "start"
    /\ v_save' = VideoSaveOf(v_cfg.direct_audio, v_cfg.vid_output_audio, v_cfg.has_audio)
    /\ IF PlainRefused(v_save'.audio_2stage, v_cfg.overwrite, v_files[PLAIN] # "absent")
       THEN v_pc' = "failed" /\ v_err' = "output_path_gen exists"
       ELSE v_pc' = "enter" /\ v_err' = "none"
    /\ UNCHANGED <<v_cfg, v_stage, v_files, v_before, v_moved>>
    /\ UNCHANGED <<imgvars, streamvars, decvars, latevars>>

\* Both stages given the output path as their destination.
DestAlwaysOut == OUT

\* The destination of the stage: the path _video_save chose, then the
\* output path (lines 275, 285, 467, 479).
Dest == IF v_stage = 1 THEN v_save.output_path_write ELSE OUT

\* tmp_path_move_ctx(path, trail_org_ext = True): the temp path of a path.
TmpPath(path) == IF path = OUT THEN OUT_TMP ELSE PLAIN_TMP

\* The subprocess given the destination itself as its output path.
SubprocessTargetDest(tmp_path, dest) == dest

\* Lines 277-281, 287, 469-475, 481: the path the encoder and the audio
\* merge are given to write to is the context's tmp_path.
SubprocessTarget(tmp_path, dest) == tmp_path

\* tmp_path_move_ctx is entered: a temp file left by an earlier attempt is
\* deleted when overwrite_delete_tmp (= overwrite) allows, and refused
\* otherwise.
TmpEnter ==
    /\ v_pc = "enter"
    /\ IF v_files[TmpPath(Dest)] = "absent"
       THEN v_pc' = "running" /\ UNCHANGED <<v_files, v_err>>
       ELSE IF v_cfg.overwrite
       THEN /\ v_files' = [v_files EXCEPT ![TmpPath(Dest)] = "absent"]
            /\ v_pc' = "running"
            /\ UNCHANGED v_err
       ELSE /\ v_pc' = "failed"
            /\ v_err' = "tmp path exists"
            /\ UNCHANGED v_files
    /\ UNCHANGED <<v_cfg, v_stage, v_save, v_before, v_moved>>
    /\ UNCHANGED <<imgvars, streamvars, decvars, latevars>>

\* The subprocess (the encoder in stage 1, the audio merge in stage 2) has
\* begun to write its output file.
SubprocessWrite ==
    /\ v_pc = "running"
    /\ v_files' = [v_files EXCEPT ![SubprocessTarget(TmpPath(Dest), Dest)] = "partial"]
    /\ v_pc' = "writing"
    /\ UNCHANGED <<v_cfg, v_stage, v_save, v_before, v_moved, v_err>>
    /\ UNCHANGED <<imgvars, streamvars, decvars, latevars>>

\* Lines 287 and 481, add_audio(output_path_write, source_path, tmp_path):
\* the video the merge reads is the one at the path _video_save chose.
MergeInput == v_save.output_path_write

\* What a subprocess that runs to its end has written: the encoder the
\* video, with the source's audio when it is given an audio source (lines
\* 279, 471); the merge the video it read with the source's audio, and
\* nothing usable when there was no finished video to read.
Produced ==
    IF v_stage = 1
    THEN IF v_save.audio_source THEN "video+audio" ELSE "video"
    ELSE IF v_files[MergeInput] = "video" THEN "video+audio" ELSE "partial"

\* The subprocess exits with status 0: its output file is complete.
SubprocessExitOk ==
    /\ v_pc = "writing"
    /\ v_files' = [v_files EXCEPT ![SubprocessTarget(TmpPath(Dest), Dest)] = Produced]
    /\ v_pc' = "exit"
    /\ UNCHANGED <<v_cfg, v_stage, v_save, v_before, v_moved, v_err>>
    /\ UNCHANGED <<imgvars, streamvars, decvars, latevars>>

\* The subprocess is killed or exits non-zero: the call raises, and the
\* context removes the temp file of the attempt on its way out.
SubprocessFail ==
    /\ v_pc \in {"running", "writing"}
    /\ v_files' = [v_files EXCEPT ![TmpPath(Dest)] = "absent"]
    /\ v_pc' = "failed"
    /\ v_err' = "SubprocessFailure"
    /\ UNCHANGED <<v_cfg, v_stage, v_save, v_before, v_moved>>
    /\ UNCHANGED <<imgvars, streamvars, decvars, latevars>>

\* The context exits without an error: the temp file is moved to the
\* destination, which an existing file stops unless overwrite is allowed.
\* After stage 1 the merge follows when audio_2stage (lines 283, 477).
TmpMove ==
    /\ v_pc = "exit"
    /\ IF v_files[TmpPath(Dest)] = "absent"
       THEN /\ v_pc' = "failed"
            /\ v_err' = "FileNotFoundError"
            /\ UNCHANGED <<v_files, v_moved, v_stage>>
       ELSE IF v_files[Dest] # "absent" /\ ~v_cfg.overwrite
       THEN /\ v_pc' = "failed"
            /\ v_err' = "destination exists"
            /\ v_files' = [v_files EXCEPT ![TmpPath(Dest)] = "absent"]
            /\ UNCHANGED <<v_moved, v_stage>>
       ELSE /\ v_files' = [v_files EXCEPT ![Dest] = v_files[TmpPath(Dest)],
                                          ![TmpPath(Dest)] = "absent"]
            /\ v_moved' = v_moved \cup {Dest}
            /\ v_stage' = IF v_stage = 1 /\ v_save.audio_2stage THEN 2 ELSE v_stage
            /\ v_pc' = IF v_stage = 1 /\ v_save.audio_2stage THEN "enter" ELSE "done"
            /\ UNCHANGED v_err
    /\ UNCHANGED <<v_cfg, v_save, v_before>>
    /\ UNCHANGED <<imgvars, streamvars, decvars, latevars>>

NextSave ==
    \/ StartCheck
    \/ VideoSave
    \/ TmpEnter
    \/ SubprocessWrite
    \/ SubprocessExitOk
    \/ SubprocessFail
    \/ TmpMove

InitSaved == InitSave /\ ImageIdle /\ StreamIdle /\ DecodeIdle /\ LateIdle

SpecSave == InitSaved /\ [][NextSave]_vars

\* ------------------------------- _frame_gen_ffmpeg in a stream-mode run

Width == 1
Height == 1
MaxDecFrames == 3

\* Line 315.
img_size == Width * Height * 3

\* The source video holds up to MaxDecFrames frames.
InitDecode ==
    /\ d_total \in {k * img_size : k \in 0..MaxDecFrames}
    /\ d_emit = 0
    /\ d_proc = "none"
    /\ d_status = 0
    /\ d_read = 0
    /\ d_frames = <<>>
    /\ d_sink = <<>>
    /\ d_tmp = "absent"
    /\ d_dest = NoDest
    /\ d_pc = "start"
    /\ d_err = "none"

\* Line 329: the first pull on the generator starts the decoder.
GenStart ==
    /\ d_pc = "start"
    /\ d_proc' = "running"
    /\ d_pc' = "reading"
    /\ UNCHANGED <<d_total, d_emit, d_status, d_read, d_frames, d_sink, d_tmp,
                   d_dest, d_err>>
    /\ UNCHANGED <<imgvars, streamvars, savevars, latevars>>

\* The decoder writes the next byte of its raw output to the pipe.
DecoderEmit ==
    /\ d_proc = "running"
    /\ d_emit < d_total
    /\ d_emit' = d_emit + 1
    /\ UNCHANGED <<d_total, d_proc, d_status, d_read, d_frames, d_sink, d_tmp,
                   d_dest, d_pc, d_err>>
    /\ UNCHANGED <<imgvars, streamvars, savevars, latevars>>

\* The decoder exits and its end of the pipe closes: with status 0 when it
\* has written all its output, with a non-zero status when it fails before
\* that, which may be before the first byte, at a frame boundary or inside
\* a frame.
DecoderExit ==
    /\ d_proc = "running"
    /\ d_proc' = "exited"
    /\ d_status' = IF d_emit = d_total THEN 0 ELSE 1
    /\ UNCHANGED <<d_total, d_emit, d_read, d_frames, d_sink, d_tmp, d_dest,
                   d_pc, d_err>>
    /\ UNCHANGED <<imgvars, streamvars, savevars, latevars>>

\* The bytes of the stream from position start + 1 on, n of them.
Frame(start, n) == [i \in 1..n |-> start + i]

\* Line 331, proc.stdout.read(img_size) on the buffered pipe: it returns
\* when img_size bytes are there or the pipe is at its end; the number of
\* bytes it returns.
ReadLen(avail) == IF avail < img_size THEN avail ELSE img_size

\* A read of any length taken as a frame.
FrameAnyLength(len) == TRUE

\* Line 334, ensure_equal(len(buffer), img_size).
FrameComplete(len) == len = img_size

\* What the generator does with the decoder process when it ends, raises or
\* is abandoned (lines 329-336): there is no wait, terminate or kill, the
\* process is left as it is.
ProcAtGenEnd(proc) == proc

\* Whether the generator takes the end of the stream as clean (lines
\* 332-333): the exit status of the decoder is not looked at.
CleanEnd(len, status) == len = 0

\* Lines 330-336: one turn of the read loop.
GenRead ==
    /\ d_pc = "reading"
    /\ d_emit - d_read >= img_size \/ d_proc = "exited"
    /\ LET len == ReadLen(d_emit - d_read)
       IN  IF CleanEnd(len, d_status)
           THEN /\ d_pc' = "ended"
                /\ d_proc' = ProcAtGenEnd(d_proc)
                /\ UNCHANGED <<d_read, d_frames, d_err, d_tmp>>
           ELSE IF FrameComplete(len)
           THEN /\ d_frames' = Append(d_frames, Frame(d_read, len))
                /\ d_read' = d_read + len
                /\ UNCHANGED <<d_pc, d_proc, d_err, d_tmp>>
           ELSE /\ d_pc' = "error"
                /\ d_err' = "TruncatedStream"
                /\ d_proc' = ProcAtGenEnd(d_proc)
                /\ d_tmp' = "absent"
                /\ UNCHANGED <<d_read, d_frames>>
    /\ UNCHANGED <<d_total, d_emit, d_status, d_sink, d_dest>>
    /\ UNCHANGED <<imgvars, streamvars, savevars, latevars>>

\* The run has not ended.
Running == d_pc \in {"reading", "ended"}

\* The next frame in order comes out of the workers and the encoder writes
\* it to its temp file.
RunFrameDone ==
    /\ Running
    /\ Len(d_sink) < Len(d_frames)
    /\ d_sink' = Append(d_sink, d_frames[Len(d_sink) + 1])
    /\ d_tmp' = "partial"
    /\ UNCHANGED <<d_total, d_emit, d_proc, d_status, d_read, d_frames, d_dest,
                   d_pc, d_err>>
    /\ UNCHANGED <<imgvars, streamvars, savevars, latevars>>

\* The transform raises for a frame: the error passes through vid_save_gen,
\* whose temp context removes the temp file, and ends the run.
RunWorkerFail ==
    /\ Running
    /\ Len(d_sink) < Len(d_frames)
    /\ d_pc' = "error"
    /\ d_err' = "WorkerFailure"
    /\ d_tmp' = "absent"
    /\ d_proc' = ProcAtGenEnd(d_proc)
    /\ UNCHANGED <<d_total, d_emit, d_status, d_read, d_frames, d_sink, d_dest>>
    /\ UNCHANGED <<imgvars, streamvars, savevars, latevars>>

\* The encoder is killed or exits non-zero: the temp file is removed and the
\* run ends.
RunEncoderFail ==
    /\ Running
    /\ d_pc' = "error"
    /\ d_err' = "SubprocessFailure"
    /\ d_tmp' = "absent"
    /\ d_proc' = ProcAtGenEnd(d_proc)
    /\ UNCHANGED <<d_total, d_emit, d_status, d_read, d_frames, d_sink, d_dest>>
    /\ UNCHANGED <<imgvars, streamvars, savevars, latevars>>

\* The generator has ended and every frame is encoded: the encoder exits
\* and the temp file is moved to the destination.
RunFinish ==
    /\ d_pc = "ended"
    /\ Len(d_sink) = Len(d_frames)
    /\ d_dest' = [promoted |-> TRUE, frames |-> d_sink]
    /\ d_tmp' = "absent"
    /\ d_pc' = "done"
    /\ UNCHANGED <<d_total, d_emit, d_proc, d_status, d_read, d_frames, d_sink,
                   d_err>>
    /\ UNCHANGED <<imgvars, streamvars, savevars, latevars>>

NextDecode ==
    \/ GenStart
    \/ DecoderEmit
    \/ DecoderExit
    \/ GenRead
    \/ RunFrameDone
    \/ RunWorkerFail
    \/ RunEncoderFail
    \/ RunFinish

InitDecoded == InitDecode /\ ImageIdle /\ StreamIdle /\ SaveIdle /\ LateIdle

SpecDecode == InitDecoded /\ [][NextDecode]_vars

\* ----------------------- the frame extraction of process_image_mode

MaxSrcFrames == 4

\* Line 395, extract_frames with filename_pattern = name_pattern(
\* name_suffix_org): the files in the frames directory when the first k
\* frames of the source are extracted.
ExtractedFiles(k) ==
    {<<FRAMES_DIR, ZeroPad(<<DigitChar(i)>>, 5) \o SUF_PNG>> : i \in 1..k}

\* A video source of 1..MaxSrcFrames frames, image mode with an output
\* path, no frames_dir given, nothing extracted yet.
InitExtraction ==
    \E n \in 1..MaxSrcFrames :
        extraction = [pc |-> "start", src |-> n, dir_exists |-> FALSE,
                      files |-> 0, taken |-> 0, swapped |-> 0,
                      video |-> 0, err |-> "none"]

\* Lines 390-395: the frames are extracted when the frames directory does
\* not exist; an existing one is assumed to be okay.
NeedsExtraction(dir_exists) == ~dir_exists

\* Lines 389-394: the frames directory is looked at, and made when it is
\* not there.
ExtractCheck ==
    /\ extraction.pc = "start"
    /\ extraction' =
          IF NeedsExtraction(extraction.dir_exists)
          THEN [extraction EXCEPT !.pc = "extracting", !.dir_exists = TRUE]
          ELSE [extraction EXCEPT !.pc = "index"]
    /\ UNCHANGED <<imgvars, streamvars, savevars, decvars, naming, rate>>

\* extract_frames: the subprocess writes the next frame of the source.
ExtractFrame ==
    /\ extraction.pc = "extracting"
    /\ extraction.files < extraction.src
    /\ extraction' = [extraction EXCEPT !.files = @ + 1]
    /\ UNCHANGED <<imgvars, streamvars, savevars, decvars, naming, rate>>

\* extract_frames returns: every frame of the source is written.
ExtractEnd ==
    /\ extraction.pc = "extracting"
    /\ extraction.files = extraction.src
    /\ extraction' = [extraction EXCEPT !.pc = "index"]
    /\ UNCHANGED <<imgvars, streamvars, savevars, decvars, naming, rate>>

\* Lines 401-406 and 422-423: the frames directory is indexed with
\* continuity required; an empty result ends the run.
ExtractIndex ==
    /\ extraction.pc = "index"
    /\ LET r == GetFramepaths(FRAMES_DIR, SUF_PNG, TRUE,
                              ExtractedFiles(extraction.files))
       IN  extraction' =
              IF r.err # "none"
              THEN [extraction EXCEPT !.pc = "error", !.err = r.err]
              ELSE IF r.paths = <<>>
              THEN [extraction EXCEPT !.pc = "error", !.err = "no frames"]
              ELSE [extraction EXCEPT !.pc = "swapping", !.taken = Len(r.paths)]
    /\ UNCHANGED <<imgvars, streamvars, savevars, decvars, naming, rate>>

\* A worker swaps the next frame that is not swapped yet.
ExtractSwap ==
    /\ extraction.pc = "swapping"
    /\ extraction.swapped < extraction.taken
    /\ extraction' = [extraction EXCEPT !.swapped = @ + 1]
    /\ UNCHANGED <<imgvars, streamvars, savevars, decvars, naming, rate>>

\* Line 459: every indexed frame is swapped and vid_save_frames encodes the
\* swapped frames.
ExtractSave ==
    /\ extraction.pc = "swapping"
    /\ extraction.swapped = extraction.taken
    /\ extraction' = [extraction EXCEPT !.pc = "done", !.video = extraction.swapped]
    /\ UNCHANGED <<imgvars, streamvars, savevars, decvars, naming, rate>>

\* The run is killed while it extracts or swaps.
ExtractKill ==
    /\ extraction.pc \in {"extracting", "swapping"}
    /\ extraction' = [extraction EXCEPT !.pc = "killed"]
    /\ UNCHANGED <<imgvars, streamvars, savevars, decvars, naming, rate>>

\* The program is run again with the same arguments.
ExtractRerun ==
    /\ extraction.pc \in {"killed", "error"}
    /\ extraction' = [extraction EXCEPT !.pc = "start", !.taken = 0, !.err = "none"]
    /\ UNCHANGED <<imgvars, streamvars, savevars, decvars, naming, rate>>

NextExtraction ==
    \/ ExtractCheck
    \/ ExtractFrame
    \/ ExtractEnd
    \/ ExtractIndex
    \/ ExtractSwap
    \/ ExtractSave
    \/ ExtractKill
    \/ ExtractRerun

InitExtracted ==
    /\ InitExtraction
    /\ ImageIdle /\ StreamIdle /\ SaveIdle /\ DecodeIdle /\ NamingIdle /\ RateIdle

SpecExtraction == InitExtracted /\ [][NextExtraction]_vars

\* ------------- the names of the swapped frames and the encoder's pattern

MaxNameOrd == 2

\* Lines 38-39 and 465, name_pattern(name_suffix_swapped) % i: the ordinal
\* zero-padded to 5 digits, then the suffix.
PatternName(i, suffix) == ZeroPad(<<DigitChar(i)>>, 5) \o suffix

\* Spellings of a frame file of ordinal k that the leading-number regex
\* reads as k: k.p, as a user's png sequence has it; the zero-padded
\* 0000k.p, as extract_frames writes it; and kb.p, with text after the number.
Spellings(k) ==
    {<<DigitChar(k)>> \o SUF_PNG,
     ZeroPad(<<DigitChar(k)>>, 5) \o SUF_PNG,
     <<DigitChar(k), "b">> \o SUF_PNG}

NamingNames == UNION {Spellings(k) : k \in 1..MaxNameOrd}

\* Any set of such files in the frames directory, either swapped suffix.
InitNaming ==
    \E names \in SUBSET NamingNames : \E suffix \in {SUF_PNG, SUF_JPG} :
        naming = [pc |-> "start",
                  files |-> {<<FRAMES_DIR, n>> : n \in names},
                  name_suffix_swapped |-> suffix,
                  err |-> "none", jobs |-> <<>>, swapped |-> {}, read |-> <<>>]

\* Lines 401-402 and 422-423: the frames directory is indexed with
\* continuity required and _frames gives each frame its output path.
NamingIndex ==
    /\ naming.pc = "start"
    /\ LET r == GetFramepaths(FRAMES_DIR, SUF_PNG, TRUE, naming.files)
           part == Frames(r.paths, SWAPPED_DIR, SUF_PNG,
                          naming.name_suffix_swapped, naming.files)
       IN  naming' =
              IF r.err # "none"
              THEN [naming EXCEPT !.pc = "error", !.err = r.err]
              ELSE IF part.all = <<>>
              THEN [naming EXCEPT !.pc = "error", !.err = "no frames"]
              ELSE [naming EXCEPT !.pc = "indexed", !.jobs = part.all]
    /\ UNCHANGED <<imgvars, streamvars, savevars, decvars, extraction, rate>>

\* Lines 441-451: the workers write the swapped frame of every job at its
\* output path.
NamingSwap ==
    /\ naming.pc = "indexed"
    /\ naming' = [naming EXCEPT
                    !.pc = "swapped",
                    !.swapped = {naming.jobs[i][2] : i \in 1..Len(naming.jobs)}]
    /\ UNCHANGED <<imgvars, streamvars, savevars, decvars, extraction, rate>>

\* The frames an encoder reads that is given a directory and a numbered
\* pattern: the files the pattern expands to for 1, 2, ... up to the first
\* one that is missing.
RECURSIVE PatternReads(_, _, _, _)
PatternReads(dir, suffix, f, i) ==
    IF i <= MaxNameOrd + 1 /\ Exists(<<dir, PatternName(i, suffix)>>, f)
    THEN <<PatternName(i, suffix)>> \o PatternReads(dir, suffix, f, i + 1)
    ELSE <<>>

\* Lines 465-475: the encoder of vid_save_frames is given the swapped
\* frames directory and name_pattern(name_suffix_swapped).
NamingEncode ==
    /\ naming.pc = "swapped"
    /\ naming' = [naming EXCEPT
                    !.pc = "encoded",
                    !.read = PatternReads(SWAPPED_DIR, naming.name_suffix_swapped,
                                          naming.swapped, 1)]
    /\ UNCHANGED <<imgvars, streamvars, savevars, decvars, extraction, rate>>

NextNaming ==
    \/ NamingIndex
    \/ NamingSwap
    \/ NamingEncode

InitNamed ==
    /\ InitNaming
    /\ ImageIdle /\ StreamIdle /\ SaveIdle /\ DecodeIdle /\ ExtractionIdle /\ RateIdle

SpecNaming == InitNamed /\ [][NextNaming]_vars

\* ------------------------------- the frame rates of a stream-mode run

MaxFps == 3

\* None as a frame rate; an fps_target of 0 is taken as not given as well
\* (line 219 tests its truth value).
FpsNone == 0

\* Any fps_target, given or not, any source frame rate, either reader flag.
InitRate ==
    \E target \in 0..MaxFps : \E source \in 1..MaxFps : \E cv2, ffm \in BOOLEAN :
        rate = [pc |-> "start", fps_target |-> target, fps |-> source,
                cv2_reader |-> cv2, ffmpeg_reader |-> ffm,
                fps_use |-> FpsNone, fps_swapped |-> FpsNone,
                reader |-> "none", filter |-> FpsNone, fps_output |-> FpsNone]

\* Lines 218-225, start: the frame rate to read at and the one to write at.
FpsChoice(fps_target, fps) ==
    IF fps_target # FpsNone /\ fps > fps_target
    THEN [fps_use |-> fps_target, fps_swapped |-> fps_target]
    ELSE [fps_use |-> FpsNone, fps_swapped |-> fps]

RateStart ==
    /\ rate.pc = "start"
    /\ LET c == FpsChoice(rate.fps_target, rate.fps)
       IN  rate' = [rate EXCEPT !.pc = "chosen", !.fps_use = c.fps_use,
                                !.fps_swapped = c.fps_swapped]
    /\ UNCHANGED <<imgvars, streamvars, savevars, decvars, extraction, naming>>

\* Line 258, process_streamed: the decode source.
ReaderChoice(cv2_reader, ffmpeg_reader, src_fps_output_max) ==
    IF cv2_reader \/ (~ffmpeg_reader /\ src_fps_output_max = FpsNone)
    THEN "cv2" ELSE "ffmpeg"

\* The rate the decode source drops frames to: _frame_gen_ffmpeg adds the
\* fps filter when fps_to_output is given (line 317); _frame_gen_cv2 yields
\* every frame it reads (lines 339-347).
RateFilter(reader, src_fps_output_max) ==
    IF reader = "ffmpeg" THEN src_fps_output_max ELSE FpsNone

\* Lines 258-261: the decode source is made.
RateReader ==
    /\ rate.pc = "chosen"
    /\ LET r == ReaderChoice(rate.cv2_reader, rate.ffmpeg_reader, rate.fps_use)
       IN  rate' = [rate EXCEPT !.pc = "reading", !.reader = r,
                                !.filter = RateFilter(r, rate.fps_use)]
    /\ UNCHANGED <<imgvars, streamvars, savevars, decvars, extraction, naming>>

\* Lines 268 and 277-278: the encoder is given fps_output, which start
\* passed as fps_swapped (line 232).
RateEncode ==
    /\ rate.pc = "reading"
    /\ rate' = [rate EXCEPT !.pc = "encoding", !.fps_output = rate.fps_swapped]
    /\ UNCHANGED <<imgvars, streamvars, savevars, decvars, extraction, naming>>

NextRate ==
    \/ RateStart
    \/ RateReader
    \/ RateEncode

InitRated ==
    /\ InitRate
    /\ ImageIdle /\ StreamIdle /\ SaveIdle /\ DecodeIdle /\ ExtractionIdle /\ NamingIdle

SpecRate == InitRated /\ [][NextRate]_vars

\* ------------------------------------------- a run of either mode

InitEitherMode == InitImageMode \/ InitDecoded

NextEitherMode == NextImage \/ NextDecode

SpecEitherMode == InitEitherMode /\ [][NextEitherMode]_vars

\* ----------------------------------------------- properties: image mode

InSeq(x, s) == \E i \in 1..Len(s) : s[i] = x

Outs(jobs) == {jobs[i][2] : i \in 1..Len(jobs)}

IsDisjointUnion(all, todo, done) ==
    /\ \A i \in 1..Len(all) : InSeq(all[i], todo) # InSeq(all[i], done)
    /\ \A x \in Range(todo) \cup Range(done) : InSeq(x, all)

\* The state is the one the force-redo step of lines 425-439 has left: the
\* policies were applied, or an unlink raised.
AfterRedo == pc = "redone" \/ (pc = "error" /\ err = "FileNotFoundError")

\* The state is the one the indexer has left.
AfterIndex ==
    pc = "indexed" \/ (pc = "error" /\ err \in {"AttributeError", "TypeError", "continuity"})

\* The names of the frames directory that end with name_suffix_org.
MatchingFiles == Range(ScanDir(FRAMES_DIR, cfg.name_suffix_org, fs))

AllParse == \A n \in MatchingFiles : LeadingNum(n) # NoMatch

\* The leading ordinals of the matching files, in ascending order.
SortedOrdinals ==
    LET names == SortNum(MatchingFiles)
    IN  [i \in 1..Len(names) |-> LeadingNum(names[i])]

OrdinalSet == {LeadingNum(n) : n \in MatchingFiles}

HasDuplicateOrdinal ==
    \E a, b \in MatchingFiles : a # b /\ LeadingNum(a) = LeadingNum(b)

HasGapOrBadStart ==
    /\ MatchingFiles # {}
    /\ \/ Min(OrdinalSet) # 1
       \/ \E k \in 1..(MaxOrd + 1) :
            /\ k \notin OrdinalSet
            /\ \E a, b \in OrdinalSet : a < k /\ k < b

\* C1: in the partition _frames returns, and in the partition left by the
\* force-redo policies, every job of all is in exactly one of todo and
\* done, and todo and done hold no job that is not in all.
C1_PartitionIsDisjointUnion ==
    /\ IsDisjointUnion(part0.all, part0.todo, part0.done)
    /\ IsDisjointUnion(fp_all, fp_todo, fp_done)

C1_Witness ==
    /\ pc = "redone"
    /\ del_done
    /\ part0.todo # <<>>
    /\ part0.done # <<>>
    /\ Len(fp_todo) >= 3

\* C2: when a run has processed every job of its todo without a worker
\* failure, whatever partition it started from (also one left by an earlier
\* run that was interrupted after some jobs), partitioning the same frames
\* again gives an empty todo and done equal to all.
C2_Resumable ==
    pc = "swapped" =>
        LET r == Frames(in_frame_paths, swapped_frames_dir,
                        cfg.name_suffix_org, cfg.name_suffix_swapped, fs)
        IN  /\ r.todo = <<>>
            /\ r.done = r.all
            /\ r.all = fp_all

C2_Witness ==
    /\ pc = "swapped"
    /\ ~del_done
    /\ fp_done # <<>>
    /\ Cardinality(processed) >= 2

C6_ContinuityValidation ==
    (cfg.output_path /\ AfterIndex /\ AllParse) =>
        /\ (pc = "indexed") <=>
              (~HasDuplicateOrdinal /\ OrdinalSet = 1..Cardinality(MatchingFiles))
        /\ pc = "indexed" =>
              /\ Len(in_frame_paths) = Cardinality(MatchingFiles)
              /\ \A i \in 1..Len(in_frame_paths) :
                    LeadingNum(in_frame_paths[i][2]) = i
        /\ HasGapOrBadStart =>
              /\ err = "continuity"
              /\ err_nums = SortedOrdinals
              /\ in_frame_paths = <<>>

\* C7: with continuity required, two matching files with the same leading
\* ordinal are reported by the continuity error carrying the ordinal list,
\* as a gap is, and by no other failure.
C7_DuplicateIsContinuityError ==
    (cfg.output_path /\ AfterIndex /\ AllParse /\ HasDuplicateOrdinal) =>
        /\ err = "continuity"
        /\ err_nums = SortedOrdinals

\* C8: with redo_swapped and k of n done, 0 < k < n, exactly the k done
\* outputs are deleted and all n jobs are queued with done empty; with
\* redo_completed_swap and n of n done, all outputs are deleted and all n
\* jobs are queued; with 0 of n done no flag deletes anything and todo is
\* the n jobs it is without the flags.
C8_ForceRedoOutcomes ==
    LET n == Len(part0.all)
        k == Len(part0.done)
    IN  AfterRedo =>
          /\ (cfg.redo_swapped /\ 0 < k /\ k < n) =>
                /\ pc = "redone"
                /\ fs_snap \ fs = Outs(part0.done)
                /\ fs \subseteq fs_snap
                /\ fp_todo = part0.all
                /\ fp_done = <<>>
          /\ (cfg.redo_completed_swap /\ k = n) =>
                /\ pc = "redone"
                /\ fs_snap \ fs = Outs(part0.all)
                /\ fs \subseteq fs_snap
                /\ fp_todo = part0.all
                /\ fp_done = <<>>
          /\ (k = 0) =>
                /\ pc = "redone"
                /\ fs = fs_snap
                /\ fp_todo = part0.todo
                /\ Len(fp_todo) = n
                /\ fp_done = <<>>

C10_RedoKeepsInputFrames ==
    AfterRedo =>
        /\ Range(in_frame_paths) \cap fs_snap \subseteq fs
        /\ pc = "error" => processed = {}

\* --------------------------------------------- properties: stream mode

\* C4: whatever the order in which the workers finish, the frames handed to
\* the encoder are the swapped frames of the source in source order: the
\* ordinals released are 0, 1, 2, ... with no gap and no duplicate, frame i
\* of the sink is the swap of frame i of the source, and when the generator
\* ends the sink has every frame.
C4_SinkInOrdinalOrder ==
    /\ Len(s_sink) <= Len(s_source)
    /\ Len(s_sink) = Len(s_yield)
    /\ \A i \in 1..Len(s_yield) : s_yield[i][1] = i - 1
    /\ \A i \in 1..Len(s_sink) : s_sink[i] = Swap(s_source[i])
    /\ s_pc = "done" => Len(s_sink) = Len(s_source)

\* A later frame is finished and held while an earlier one is still with a
\* worker, after frames were already handed to the encoder.
C4_Witness ==
    /\ Len(s_sink) >= 1
    /\ \E held \in s_buffer : \E job \in s_inflight : job[1] < held[1]

\* ------------------------------------------------ properties: the save

\* C5: the encoder and the audio merge write to a temp path only: a
\* destination (the .plain path, the output path) never holds a partial
\* file, and its content differs from what it was before the save only
\* where a finished temp file has been moved to it.  When the subprocess is
\* killed or exits non-zero the stage's destination is as it was before
\* the attempt and the stage's temp path is gone.
C5_AtomicOutput ==
    /\ \A d \in {OUT, PLAIN} :
          /\ v_files[d] # "partial"
          /\ v_files[d] # v_before[d] =>
                (d \in v_moved /\ v_files[d] \in {"video", "video+audio"})
    /\ (v_pc = "failed" /\ v_err = "SubprocessFailure") =>
          /\ v_files[Dest] = v_before[Dest]
          /\ v_files[TmpPath(Dest)] = "absent"

\* The encoder was killed while it wrote, with no file at the destination
\* before: the destination is absent.
C5_Witness ==
    /\ v_pc = "failed"
    /\ v_err = "SubprocessFailure"
    /\ v_stage = 1
    /\ v_before[Dest] = "absent"
    /\ v_files[Dest] = "absent"

\* The three audio strategies, read off what _video_save returns.
IsNoAudio(s) ==
    s.output_path_write = OUT /\ ~s.audio_source /\ ~s.audio_2stage

IsDirectMux(s) ==
    s.output_path_write = OUT /\ s.audio_source /\ ~s.audio_2stage

IsPlainThenMerge(s) ==
    s.output_path_write = PLAIN /\ ~s.audio_source /\ s.audio_2stage

\* _video_save has returned.
Selected ==
    /\ v_pc \notin {"check", "start"}
    /\ v_err \notin {"output_path exists", "output_path_gen exists"}

\* C11: once _video_save has returned, exactly one of NoAudio, DirectMux and
\* PlainThenMerge is selected; DirectMux only if direct_audio is requested
\* and the source has audio; and when DirectMux is not selected while audio
\* output is wanted and the source has audio, PlainThenMerge is selected.
C11_AudioStrategySelection ==
    Selected =>
        /\ \/ IsNoAudio(v_save) /\ ~IsDirectMux(v_save) /\ ~IsPlainThenMerge(v_save)
           \/ ~IsNoAudio(v_save) /\ IsDirectMux(v_save) /\ ~IsPlainThenMerge(v_save)
           \/ ~IsNoAudio(v_save) /\ ~IsDirectMux(v_save) /\ IsPlainThenMerge(v_save)
        /\ IsDirectMux(v_save) => (v_cfg.direct_audio /\ v_cfg.has_audio)
        /\ (~IsDirectMux(v_save) /\ v_cfg.vid_output_audio /\ v_cfg.has_audio)
              => IsPlainThenMerge(v_save)

\* direct_audio is requested for a source without an audio track: the run
\* ends in NoAudio, with its video saved.
C11_Witness ==
    /\ Selected
    /\ v_cfg.direct_audio /\ ~v_cfg.has_audio /\ v_cfg.vid_output_audio
    /\ IsNoAudio(v_save)
    /\ v_pc = "done"

\* C12: when the source has no audio track or audio output is suppressed
\* (vid_output_audio false), the run is in NoAudio whatever direct_audio is:
\* no audio source for the encoder, no merge stage, the video written to the
\* final output path.
C12_NoAudioWhenSuppressed ==
    (Selected /\ (~v_cfg.has_audio \/ ~v_cfg.vid_output_audio)) => IsNoAudio(v_save)

C14_PlainPreexistenceCheck ==
    /\ (v_pc \notin {"check", "start"} /\ v_err # "output_path exists"
          /\ ~v_cfg.direct_audio /\ v_cfg.vid_output_audio /\ v_cfg.has_audio
          /\ ~v_cfg.overwrite /\ v_before[PLAIN] # "absent") =>
            /\ v_pc = "failed"
            /\ v_err = "output_path_gen exists"
            /\ v_files = v_before
    /\ v_cfg.overwrite => v_err # "output_path_gen exists"

\* The run was refused for an old .plain file, which is still there.
C14_Witness ==
    /\ v_pc = "failed"
    /\ v_err = "output_path_gen exists"
    /\ v_files[PLAIN] = "old"

\* C15: in every mode, when the output path exists and overwrite is not
\* given, the run is refused: it ends with the output-exists error of start,
\* no subprocess is started and no file is changed.
C15_OutputAlreadyExists ==
    (~v_cfg.overwrite /\ v_before[OUT] # "absent") =>
        /\ v_pc \in {"check", "failed"}
        /\ v_err \in {"none", "output_path exists"}
        /\ v_files = v_before

\* -------------------------------------- properties: failures of a run

\* C16: a worker failure ends the run with the error and no video at the
\* destination.  In image mode vid_save_frames is only ever called by a run
\* without a worker failure, whose jobs are all done, and after a worker
\* failure the outputs written so far are in place; in stream mode the
\* destination is not promoted and the partial temp file is gone.
C16_WorkerFailureIsFatal ==
    /\ err = "WorkerFailure" =>
          /\ pc = "error"
          /\ \A i \in processed : Exists(fp_todo[i][2], fs)
    /\ pc \in {"saving", "returned"} =>
          /\ err = "none"
          /\ \A i \in 1..Len(fp_all) : Exists(fp_all[i][2], fs)
    /\ d_err = "WorkerFailure" =>
          /\ d_pc = "error"
          /\ ~d_dest.promoted
          /\ d_tmp = "absent"

\* The transform raised in stream mode after the encoder had written
\* frames to its temp file.
C16_Witness ==
    /\ d_err = "WorkerFailure"
    /\ Len(d_sink) >= 1
    /\ Len(d_frames) > Len(d_sink)

\* The run has ended.
Ended == d_pc \in {"done", "error"}

\* C17: when a stream-mode run has ended, with success or with an error, the
\* decoder process is not running.
C17_NoOrphanedDecoder ==
    Ended => d_proc # "running"

\* C18: a decoder that exited with a non-zero status is not taken as a clean
\* end of the stream: the run does not succeed and nothing is promoted to
\* the destination.
C18_DecoderFailureAborts ==
    (d_proc = "exited" /\ d_status # 0) =>
        /\ d_pc \notin {"ended", "done"}
        /\ ~d_dest.promoted

\* C19: the frames yielded are, in order, the consecutive blocks of
\* img_size bytes of the stream; the generator ends cleanly only on a read
\* of zero bytes (the pipe at its end with nothing unread); a last read of
\* 1 to img_size - 1 bytes raises, and those bytes are not yielded.
C19_DecodeFraming ==
    /\ \A k \in 1..Len(d_frames) : d_frames[k] = Frame((k - 1) * img_size, img_size)
    /\ d_read = Len(d_frames) * img_size
    /\ d_read <= d_emit
    /\ d_pc \in {"ended", "done"} => (d_proc = "exited" /\ d_emit = d_read)
    /\ d_err = "TruncatedStream" =>
          /\ d_proc = "exited"
          /\ d_emit - d_read \in 1..(img_size - 1)
    /\ (d_proc = "exited" /\ d_emit - d_read \in 1..(img_size - 1)) =>
          d_pc \notin {"ended", "done"}

\* The decoder stopped inside the second frame: one frame was yielded and
\* the read of the rest raised.
C19_Witness ==
    /\ d_err = "TruncatedStream"
    /\ Len(d_frames) = 1
    /\ d_emit > img_size

\* --------------------------------------- properties: output paths

\* C20: the output paths _frames gives the input frames are pairwise
\* different.
C20_OutputPathsInjective ==
    \A i, j \in 1..Len(fp_all) : fp_all[i][2] = fp_all[j][2] => i = j

\* ------------------------------------ properties: frame extraction

\* C21: a run that ends, also after earlier runs with the same arguments
\* were killed while extracting, has indexed, swapped and encoded every
\* frame of the source: a partly filled frames directory is not taken as a
\* complete extraction.
C21_ExtractionResumable ==
    /\ extraction.pc \in {"swapping", "done"} => extraction.taken = extraction.src
    /\ extraction.pc = "done" => extraction.video = extraction.src

\* ------------------------------------------- properties: the names

\* C22: for every frames directory that the indexer accepts with continuity
\* required, the output name _frames gives the frame of ordinal i is the name
\* the encoder's pattern expands to for i, and the encoder reads exactly the
\* n swapped frames, in ordinal order.
C22_IndexedAndEncodedNamesAgree ==
    /\ naming.pc \in {"indexed", "swapped", "encoded"} =>
          \A i \in 1..Len(naming.jobs) :
              naming.jobs[i][2][2] = PatternName(i, naming.name_suffix_swapped)
    /\ naming.pc = "encoded" =>
          naming.read = [i \in 1..Len(naming.jobs) |-> naming.jobs[i][2][2]]

\* ------------------------------------- properties: the frame rates

\* C23: the encoder is given fps_target when fps_target is set and the
\* source frame rate is higher, and the source frame rate otherwise; when it
\* is given fps_target the decode source drops frames to that rate; and
\* when the decode source drops no frames the encoder is given the source
\* frame rate.
C23_FrameRateConsistency ==
    rate.pc = "encoding" =>
        /\ rate.fps_output =
              IF rate.fps_target # FpsNone /\ rate.fps > rate.fps_target
              THEN rate.fps_target ELSE rate.fps
        /\ (rate.fps_target # FpsNone /\ rate.fps > rate.fps_target) =>
              rate.filter = rate.fps_target
        /\ rate.filter = FpsNone => rate.fps_output = rate.fps

====
